---- MODULE Spec2Model ----
(***************************************************************************)
(* Model of src/app.py: an attendance tracker that stores only the LIBUR   *)
(* (day off) exceptions to a default of MASUK (present).                   *)
(*                                                                         *)
(* Text is a sequence of character codes (32 = space, 45 = "-",            *)
(* 48..57 = "0".."9", 97.. = "a"..), so that strip(), isoformat() and the  *)
(* TEXT comparison of SQLite are computed, not assumed.                    *)
(*                                                                         *)
(* The two tables are the variables employees (id -> row) and overrides    *)
(* (a bag of rows: the columns id and created_at, which no statement of    *)
(* the program reads, are left out, and a bag keeps duplicate rows apart). *)
(* One action of the model is one run of a handler of the page, followed by *)
(* the report builder read on demand: rep is what build_report returns for *)
(* the period under examination, over the tables as the handler left them. *)
(* Tab 3 of the page, which takes its periods from month_range and         *)
(* year_range, is the action tab3.                                         *)
(***************************************************************************)
EXTENDS Integers, Sequences, FiniteSets, Bags, TLC

VARIABLES employees, emp_seq, overrides, period, rep, outcome

vars == <<employees, emp_seq, overrides, period, rep, outcome>>

\* ------------------------------------------------------------------ bounds

\* The employees table never holds more than this many ids (emp_seq is capped).
MaxEmployees == 2

\* The longest list of employee ids handed to a direct call of set_libur or
\* clear_override.
MaxCallLen == 2

\* ------------------------------------------------------------------- text

\* str.strip(): leading and trailing whitespace removed.
RECURSIVE lstrip(_)
lstrip(s) == IF s # <<>> /\ Head(s) = 32 THEN lstrip(Tail(s)) ELSE s

RECURSIVE rstrip(_)
rstrip(s) ==
    IF s # <<>> /\ s[Len(s)] = 32 THEN rstrip(SubSeq(s, 1, Len(s) - 1)) ELSE s

strip(s) == rstrip(lstrip(s))

\* SQLite's comparison of two TEXT values under the BINARY collation (memcmp,
\* the shorter text first when one is a prefix of the other): s <= t.
RECURSIVE TextLeqFrom(_, _, _)
TextLeqFrom(s, t, i) ==
    IF i > Len(s) THEN TRUE
    ELSE IF i > Len(t) THEN FALSE
    ELSE IF s[i] # t[i] THEN s[i] < t[i]
    ELSE TextLeqFrom(s, t, i + 1)

TextLeq(s, t) == TextLeqFrom(s, t, 1)

\* Between with the upper bound left out of the range.
Between_exclusive(x, lo, hi) == TextLeq(lo, x) /\ TextLeq(x, hi) /\ x # hi

\* x BETWEEN lo AND hi  ==  lo <= x AND x <= hi
Between(x, lo, hi) == TextLeq(lo, x) /\ TextLeq(x, hi)

\* A nullable TEXT column: NULL, or a text.
NULL == [isNull |-> TRUE, text |-> <<>>]

Text(s) == [isNull |-> FALSE, text |-> s]

\* OrNone that stores the empty text instead of NULL.
OrNone_keeps_empty(s) == Text(s)

\* Python's `s or None` for a str s.
OrNone(s) == IF s = <<>> THEN NULL ELSE Text(s)

\* ------------------------------------------------------------------ dates

Date(y, m, d) == [year |-> y, month |-> m, day |-> d]

DigitChar(n) == 48 + n

\* date.isoformat(): YYYY-MM-DD, zero padded.
isoformat(d) ==
    << DigitChar((d.year \div 1000) % 10), DigitChar((d.year \div 100) % 10),
       DigitChar((d.year \div 10) % 10), DigitChar(d.year % 10), 45,
       DigitChar((d.month \div 10) % 10), DigitChar(d.month % 10), 45,
       DigitChar((d.day \div 10) % 10), DigitChar(d.day % 10) >>

is_leap(y) == y % 4 = 0 /\ (y % 100 # 0 \/ y % 400 = 0)

days_in_month(y, m) ==
    IF m = 2 THEN (IF is_leap(y) THEN 29 ELSE 28)
    ELSE IF m \in {4, 6, 9, 11} THEN 30 ELSE 31

days_before_year(y) ==
    LET p == y - 1 IN p * 365 + (p \div 4) - (p \div 100) + (p \div 400)

RECURSIVE days_before_month(_, _)
days_before_month(y, m) ==
    IF m = 1 THEN 0 ELSE days_before_month(y, m - 1) + days_in_month(y, m - 1)

\* date.toordinal(): 1 for 0001-01-01.
toordinal(d) == days_before_year(d.year) + days_before_month(d.year, d.month) + d.day

\* (end_date - start_date).days
days_between(start_date, end_date) == toordinal(end_date) - toordinal(start_date)

\* The year of the day of ordinal n, searched upwards from the year y.
RECURSIVE year_from(_, _)
year_from(n, y) == IF days_before_year(y + 1) < n THEN year_from(n, y + 1) ELSE y

\* The month of the n-th day of the year y, searched upwards from the month m.
RECURSIVE month_from(_, _, _)
month_from(y, n, m) ==
    IF m < 12 /\ days_before_month(y, m + 1) < n THEN month_from(y, n, m + 1) ELSE m

\* date.fromordinal(n), the inverse of toordinal.
fromordinal(n) ==
    LET y == year_from(n, ((n - 1) \div 366) + 1)
        r == n - days_before_year(y)
        m == month_from(y, r, 1)
    IN Date(y, m, r - days_before_month(y, m))

\* d - pd.Timedelta(days=n) for a datetime.date d: pd.Timedelta is a subclass of
\* datetime.timedelta, so date.__sub__ answers, and with a datetime.date.
date_sub_timedelta(d, n) == [ cls |-> "date", value |-> fromordinal(toordinal(d) - n) ]

\* x.to_pydatetime().date(): to_pydatetime is a method of pd.Timestamp; a
\* datetime.date has no such attribute, and the lookup raises AttributeError.
to_pydatetime_date(x) ==
    IF x.cls = "Timestamp" THEN [ err |-> "none", value |-> x.value ]
    ELSE [ err |-> "AttributeError" ]

\* The dates the operator enters.
Dates == { Date(2024, 1, 1), Date(2024, 1, 31) }

\* The years entered in tab 3 (number_input from 2000 to 2100): a leap year
\* that is a multiple of 400, a common year, a leap year and a common year
\* that is a multiple of 100.
Years == { 2000, 2023, 2024, 2100 }

\* The months entered in tab 3 (number_input from 1 to 12).
Months == 1 .. 12

\* ----------------------------------------------------------------- inputs

\* What the operator types as a name: " " and " a ".
RawNames == { <<32>>, <<32, 97, 32>> }

\* What the operator types as a code: " ", "x" and "x ".
RawCodes == { <<32>>, <<120>>, <<120, 32>> }

\* What the operator types as a note: blank and " n".
RawNotes == { <<>>, <<32, 110>> }

\* The notes a direct call of set_libur is given: "n".
Notes == { <<110>> }

Modes == { "Satu karyawan", "Semua karyawan aktif" }

States == { "Aktif", "Nonaktif" }

\* Every id the employees table can ever hand out.
Ids == 1 .. MaxEmployees

\* ------------------------------------------------------------- the tables

\* code_unique with NULL treated as a value like any other.
code_unique_null_collides(emps, code) ==
    \A e \in DOMAIN emps : emps[e].employee_code # code

\* employees.employee_code TEXT UNIQUE: a new code collides with an equal stored
\* code; two NULLs never collide.
code_unique(emps, code) ==
    \/ code.isNull
    \/ \A e \in DOMAIN emps : emps[e].employee_code # code

\* The row of attendance_overrides for (employee, date), as stored.
OverrideRow(eid, wd, notes) ==
    [employee_id |-> eid, work_date |-> wd, status |-> "LIBUR", notes |-> notes]

\* The rows of `tbl` with this (employee_id, work_date).
RowsOf(tbl, eid, wd) ==
    { r \in BagToSet(tbl) : r.employee_id = eid /\ r.work_date = wd }

\* `tbl` without the rows in the set R (every copy).
Without(tbl, R) ==
    [ r \in BagToSet(tbl) \ R |-> tbl[r] ]

\* The number of rows (copies counted) of `tbl` in the set R of its rows.
CountRows(tbl, R) == BagCardinality([ r \in R |-> tbl[r] ])

\* ------------------------------------------------------------- statements

\* INSERT INTO employees(full_name, employee_code, is_active, created_at)
\* VALUES(?, ?, 1, ?): the row gets the next AUTOINCREMENT id, or the statement
\* fails on UNIQUE(employee_code) and changes nothing.
insert_employee(emps, seq, name, code) ==
    IF code_unique(emps, code)
    THEN [ emps |-> [ e \in DOMAIN emps \cup {seq + 1} |->
                        IF e = seq + 1
                        THEN [full_name |-> name, employee_code |-> code, is_active |-> 1]
                        ELSE emps[e] ],
           seq |-> seq + 1,
           err |-> "none" ]
    ELSE [ emps |-> emps, seq |-> seq,
           err |-> "UNIQUE constraint failed: employees.employee_code" ]

\* UPDATE employees SET is_active = ? WHERE id = ?
update_is_active(emps, flag, id) ==
    [ e \in DOMAIN emps |-> IF e = id THEN [emps[e] EXCEPT !.is_active = flag] ELSE emps[e] ]

\* upsert_override as a plain INSERT into a table with no UNIQUE(employee_id,
\* work_date): a second write of a pair adds a second row.
upsert_override_plain_insert(emps, tbl, eid, wd, notes) ==
    IF eid \in DOMAIN emps
    THEN [ tbl |-> tbl (+) SetToBag({OverrideRow(eid, wd, notes)}), err |-> "none" ]
    ELSE [ tbl |-> tbl, err |-> "FOREIGN KEY constraint failed" ]

\* INSERT INTO attendance_overrides ... ON CONFLICT(employee_id, work_date)
\* DO UPDATE SET status='LIBUR', notes=excluded.notes.  With foreign keys on, a
\* new row for an employee_id that is not in employees fails.
upsert_override(emps, tbl, eid, wd, notes) ==
    LET R == RowsOf(tbl, eid, wd) IN
    IF R # {}
    THEN [ tbl |-> Without(tbl, R) (+)
                     [ r \in {OverrideRow(eid, wd, notes)} |-> CountRows(tbl, R) ],
           err |-> "none" ]
    ELSE IF eid \in DOMAIN emps
    THEN [ tbl |-> tbl (+) SetToBag({OverrideRow(eid, wd, notes)}), err |-> "none" ]
    ELSE [ tbl |-> tbl, err |-> "FOREIGN KEY constraint failed" ]

\* delete_override with the date left out of the WHERE clause.
delete_override_any_date(tbl, eid, wd) ==
    Without(tbl, { r \in BagToSet(tbl) : r.employee_id = eid })

\* DELETE FROM attendance_overrides WHERE employee_id = ? AND work_date = ?
delete_override(tbl, eid, wd) == Without(tbl, RowsOf(tbl, eid, wd))

\* delete_employee with the foreign key not enforced: no cascade.
delete_employee_no_cascade(emps, tbl, id) ==
    [ emps |-> [ e \in DOMAIN emps \ {id} |-> emps[e] ], tbl |-> tbl ]

\* DELETE FROM employees WHERE id = ?, with ON DELETE CASCADE on
\* attendance_overrides.employee_id (PRAGMA foreign_keys = ON).
delete_employee(emps, tbl, id) ==
    [ emps |-> [ e \in DOMAIN emps \ {id} |-> emps[e] ],
      tbl |-> Without(tbl, { r \in BagToSet(tbl) : r.employee_id = id }) ]

\* --------------------------------------------------------- business logic

\* The ids in S as a list ORDER BY full_name (rows of equal name in id order).
RECURSIVE OrderByName(_, _)
OrderByName(emps, S) ==
    IF S = {} THEN <<>>
    ELSE LET first == CHOOSE e \in S : \A f \in S :
                        \/ e = f
                        \/ emps[e].full_name # emps[f].full_name
                           /\ TextLeq(emps[e].full_name, emps[f].full_name)
                        \/ emps[e].full_name = emps[f].full_name /\ e < f
         IN <<first>> \o OrderByName(emps, S \ {first})

\* ActiveIds with the WHERE clause left out.
ActiveIds_all(emps) == DOMAIN emps

\* The ids get_active_employees() selects: WHERE is_active = 1.
ActiveIds(emps) == { e \in DOMAIN emps : emps[e].is_active = 1 }

\* get_active_employees(): SELECT id, full_name, employee_code FROM employees
\* WHERE is_active = 1 ORDER BY full_name.
get_active_employees(emps) ==
    LET order == OrderByName(emps, ActiveIds(emps)) IN
    [ i \in 1 .. Len(order) |->
        [ id |-> order[i], full_name |-> emps[order[i]].full_name,
          employee_code |-> emps[order[i]].employee_code ] ]

\* get_all_employees(): every employee, ORDER BY full_name.
get_all_employees(emps) ==
    LET order == OrderByName(emps, DOMAIN emps) IN
    [ i \in 1 .. Len(order) |->
        [ id |-> order[i], full_name |-> emps[order[i]].full_name,
          employee_code |-> emps[order[i]].employee_code,
          is_active |-> emps[order[i]].is_active ] ]

\* set_libur with one transaction around the loop: a failure undoes the writes
\* made before it.
RECURSIVE set_libur_one_transaction(_, _, _, _, _)
set_libur_one_transaction(emps, tbl, employee_ids, work_date, notes) ==
    IF employee_ids = <<>> THEN [ tbl |-> tbl, err |-> "none" ]
    ELSE LET r == upsert_override(emps, tbl, Head(employee_ids),
                                  isoformat(work_date), notes)
         IN IF r.err # "none" THEN r
            ELSE LET rest == set_libur_one_transaction(emps, r.tbl, Tail(employee_ids),
                                                       work_date, notes)
                 IN IF rest.err # "none" THEN [ tbl |-> tbl, err |-> rest.err ] ELSE rest

\* set_libur(employee_ids, work_date, notes): one statement, committed on its
\* own, per id; the first statement that fails raises, and the loop ends there.
RECURSIVE set_libur(_, _, _, _, _)
set_libur(emps, tbl, employee_ids, work_date, notes) ==
    IF employee_ids = <<>> THEN [ tbl |-> tbl, err |-> "none" ]
    ELSE LET r == upsert_override(emps, tbl, Head(employee_ids),
                                  isoformat(work_date), notes)
         IN IF r.err # "none" THEN r
            ELSE set_libur(emps, r.tbl, Tail(employee_ids), work_date, notes)

\* clear_override(employee_ids, work_date): one DELETE, committed on its own,
\* per id.
RECURSIVE clear_override(_, _, _)
clear_override(tbl, employee_ids, work_date) ==
    IF employee_ids = <<>> THEN tbl
    ELSE clear_override(delete_override(tbl, Head(employee_ids), isoformat(work_date)),
                        Tail(employee_ids), work_date)

\* SELECT employee_id, COUNT(*) AS libur_days FROM attendance_overrides
\* WHERE work_date BETWEEN ? AND ? GROUP BY employee_id: the count of one group.
libur_count(tbl, eid, lo, hi) ==
    CountRows(tbl, { r \in BagToSet(tbl) :
                        r.employee_id = eid /\ Between(r.work_date, lo, hi) })

\* total_days = (end_date - start_date).days + 1
total_days(start_date, end_date) == days_between(start_date, end_date) + 1

\* merge_row with masuk_days left at total_days (the subtraction forgotten).
merge_row_no_subtraction(employee, libur, total) ==
    [ id |-> employee.id, full_name |-> employee.full_name,
      employee_code |-> employee.employee_code, total_days |-> total,
      masuk_days |-> total, libur_days |-> libur ]

\* One row of the merge (how="left") of the active employees with the grouped
\* counts, an employee of no group counting 0 (fillna), and the two columns
\* total_days and masuk_days = total_days - libur_days.
merge_row(employee, libur, total) ==
    [ id |-> employee.id, full_name |-> employee.full_name,
      employee_code |-> employee.employee_code, total_days |-> total,
      masuk_days |-> total - libur, libur_days |-> libur ]

\* build_report before the id column is dropped: one row per active employee,
\* in the order of get_active_employees (by full_name).
report_frame(emps, tbl, start_date, end_date) ==
    LET act == get_active_employees(emps)
        lo == isoformat(start_date)
        hi == isoformat(end_date)
        total == total_days(start_date, end_date)
    IN [ i \in 1 .. Len(act) |->
           merge_row(act[i], libur_count(tbl, act[i].id, lo, hi), total) ]

\* rep[["full_name", "employee_code", "total_days", "masuk_days", "libur_days"]]
columns(r) ==
    [ full_name |-> r.full_name, employee_code |-> r.employee_code,
      total_days |-> r.total_days, masuk_days |-> r.masuk_days,
      libur_days |-> r.libur_days ]

\* build_report(start_date, end_date): no row at all when no employee is
\* active, otherwise the frame's five columns, sorted by full_name.
build_report(emps, tbl, start_date, end_date) ==
    LET f == report_frame(emps, tbl, start_date, end_date) IN
    [ i \in 1 .. Len(f) |-> columns(f[i]) ]

\* month_range(year, month): the first day of the month, and the day before the
\* first day of the next month (of January of year + 1 for month 12), which is
\* then asked for to_pydatetime().date().
month_range(year, month) ==
    LET start == Date(year, month, 1)
        end == IF month = 12
               THEN date_sub_timedelta(Date(year + 1, 1, 1), 1)
               ELSE date_sub_timedelta(Date(year, month + 1, 1), 1)
        r == to_pydatetime_date(end)
    IN IF r.err # "none" THEN [ err |-> r.err ]
       ELSE [ err |-> "none", start |-> start, end |-> r.value ]

\* year_range(year)
year_range(year) == [ start |-> Date(year, 1, 1), end |-> Date(year, 12, 31) ]

\* ---------------------------------------------------------------- the page

\* The report builder read on demand: build_report for the period `per`, over
\* the tables as the handler left them.
Refresh(emps, tbl, per) ==
    rep' = build_report(emps, tbl, per.start, per.end)

Init ==
    /\ employees = <<>>
    /\ emp_seq = 0
    /\ overrides = EmptyBag
    /\ period = [start |-> Date(2024, 1, 1), end |-> Date(2024, 1, 1)]
    /\ rep = <<>>
    /\ outcome = [op |-> "init", msg |-> "none"]

\* "Tambah": a blank name is refused; otherwise the INSERT, whose
\* sqlite3.IntegrityError is shown as "Gagal: ...".
btn_add_emp(full_name, employee_code) ==
    /\ IF strip(full_name) = <<>>
       THEN /\ outcome' = [op |-> "btn_add_emp", msg |-> "Nama tidak boleh kosong."]
            /\ UNCHANGED <<employees, emp_seq>>
            /\ Refresh(employees, overrides, period)
       ELSE LET r == insert_employee(employees, emp_seq, strip(full_name),
                                     OrNone(strip(employee_code)))
            IN /\ r.seq <= MaxEmployees
               /\ employees' = r.emps
               /\ emp_seq' = r.seq
               /\ outcome' = [op |-> "btn_add_emp",
                              msg |-> IF r.err = "none" THEN "Karyawan ditambahkan."
                                      ELSE "Gagal"]
               /\ Refresh(r.emps, overrides, period)
    /\ UNCHANGED <<overrides, period>>

\* The options of the "Pilih karyawan" selectbox of tab 1: df_emp["id"].
status_options(emps) ==
    LET df_emp == get_all_employees(emps) IN { df_emp[i].id : i \in 1 .. Len(df_emp) }

\* "Simpan status": shown only when the employees table is not empty.
btn_save_status(selected_id, new_state) ==
    /\ selected_id \in status_options(employees)
    /\ LET emps == update_is_active(employees,
                                    IF new_state = "Aktif" THEN 1 ELSE 0, selected_id)
       IN /\ employees' = emps
          /\ Refresh(emps, overrides, period)
    /\ outcome' = [op |-> "btn_save_status", msg |-> "Status diperbarui."]
    /\ UNCHANGED <<emp_seq, overrides, period>>

\* The employees a "Set LIBUR" or "Batalkan LIBUR" press is for: the one
\* selected among df_active, or all of df_active.
target_ids(emps, mode, emp_id) ==
    IF mode = "Satu karyawan" THEN <<emp_id>>
    ELSE LET df_active == get_active_employees(emps)
         IN [ i \in 1 .. Len(df_active) |-> df_active[i].id ]

\* select_options filled from get_all_employees instead of df_active.
select_options_all(emps) == DOMAIN emps

\* The options of the "Pilih karyawan" selectbox of tab 2: df_active["id"].
select_options(emps) == ActiveIds(emps)

\* "Tandai LIBUR": shown only when some employee is active; the selectbox is
\* shown for "Satu karyawan" only. An exception of set_libur ends the run
\* before anything else of the page is read.
btn_set_libur(mode, emp_id, d, notes) ==
    /\ ActiveIds(employees) # {}
    /\ mode = "Satu karyawan" => emp_id \in select_options(employees)
    /\ LET r == set_libur(employees, overrides, target_ids(employees, mode, emp_id),
                          d, strip(notes))
       IN /\ overrides' = r.tbl
          /\ outcome' = [op |-> "btn_set_libur",
                         msg |-> IF r.err = "none" THEN "LIBUR tersimpan." ELSE r.err]
          /\ IF r.err = "none" THEN Refresh(employees, r.tbl, period) ELSE UNCHANGED rep
    /\ UNCHANGED <<employees, emp_seq, period>>

\* "Batalkan LIBUR": shown only when some employee is active.
btn_cancel_libur(mode, emp_id, d) ==
    /\ ActiveIds(employees) # {}
    /\ mode = "Satu karyawan" => emp_id \in select_options(employees)
    /\ LET tbl == clear_override(overrides, target_ids(employees, mode, emp_id), d)
       IN /\ overrides' = tbl
          /\ Refresh(employees, tbl, period)
    /\ outcome' = [op |-> "btn_cancel_libur", msg |-> "Override LIBUR dihapus."]
    /\ UNCHANGED <<employees, emp_seq, period>>

\* build_report called for another period. With no active employee it returns
\* before it reads its dates, so the period is chosen only when one is active.
select_period(start_date, end_date) ==
    /\ ActiveIds(employees) # {}
    /\ period' = [start |-> start_date, end |-> end_date]
    /\ outcome' = [op |-> "select_period", msg |-> "none"]
    /\ UNCHANGED <<employees, emp_seq, overrides>>
    /\ Refresh(employees, overrides, [start |-> start_date, end |-> end_date])

\* "Rekap bulanan" of tab 3: the period of month_range(y, m), then its report.
\* An exception of month_range ends the run before any report is built.
rekap_bulanan(y, m) ==
    /\ LET r == month_range(y, m) IN
       IF r.err # "none"
       THEN /\ outcome' = [op |-> "rekap_bulanan", msg |-> r.err]
            /\ UNCHANGED <<period, rep>>
       ELSE /\ outcome' = [op |-> "rekap_bulanan", msg |-> "none"]
            /\ period' = [start |-> r.start, end |-> r.end]
            /\ rep' = build_report(employees, overrides, r.start, r.end)
    /\ UNCHANGED <<employees, emp_seq, overrides>>

\* "Rekap tahunan" of tab 3: the period of year_range(y2), then its report.
rekap_tahunan(y2) ==
    /\ LET r == year_range(y2) IN
       /\ period' = [start |-> r.start, end |-> r.end]
       /\ rep' = build_report(employees, overrides, r.start, r.end)
    /\ outcome' = [op |-> "rekap_tahunan", msg |-> "none"]
    /\ UNCHANGED <<employees, emp_seq, overrides>>

\* Tab 3 of a page run, shown only when some employee is active: "Rekap
\* bulanan", then "Rekap tahunan". An exception of month_range ends the run
\* there, before the yearly report; rep keeps the last report the run builds.
tab3(y, m, y2) ==
    /\ ActiveIds(employees) # {}
    /\ LET r == month_range(y, m) IN
       IF r.err # "none"
       THEN /\ outcome' = [op |-> "tab3", msg |-> r.err]
            /\ UNCHANGED <<period, rep>>
       ELSE LET r2 == year_range(y2) IN
            /\ outcome' = [op |-> "tab3", msg |-> "none"]
            /\ period' = [start |-> r2.start, end |-> r2.end]
            /\ rep' = build_report(employees, overrides, r2.start, r2.end)
    /\ UNCHANGED <<employees, emp_seq, overrides>>

\* ------------------------------------------------ calls from outside the page

SeqsUpTo(S, n) == UNION { [1 .. k -> S] : k \in 0 .. n }

\* set_libur called with any list of ids, those of no employee included.
call_set_libur(employee_ids, d, notes) ==
    /\ LET r == set_libur(employees, overrides, employee_ids, d, notes)
       IN /\ overrides' = r.tbl
          /\ outcome' = [op |-> "set_libur",
                         msg |-> IF r.err = "none" THEN "returned" ELSE r.err]
    /\ UNCHANGED <<employees, emp_seq, period, rep>>

\* clear_override called with any list of ids.
call_clear_override(employee_ids, d) ==
    /\ overrides' = clear_override(overrides, employee_ids, d)
    /\ outcome' = [op |-> "clear_override", msg |-> "returned"]
    /\ UNCHANGED <<employees, emp_seq, period, rep>>

\* An employee row deleted in the database.
sql_delete_employee(id) ==
    /\ id \in DOMAIN employees
    /\ LET r == delete_employee(employees, overrides, id)
       IN /\ employees' = r.emps
          /\ overrides' = r.tbl
    /\ outcome' = [op |-> "delete_employee", msg |-> "none"]
    /\ UNCHANGED <<emp_seq, period, rep>>

\* ---------------------------------------------------------- specifications

AddEmp == \E n \in RawNames, c \in RawCodes : btn_add_emp(n, c)

SaveStatus == \E e \in Ids, st \in States : btn_save_status(e, st)

SetLibur == \E m \in Modes, e \in Ids, d \in Dates, n \in RawNotes : btn_set_libur(m, e, d, n)

CancelLibur == \E m \in Modes, e \in Ids, d \in Dates : btn_cancel_libur(m, e, d)

SelectPeriod == \E s \in Dates, e \in Dates : select_period(s, e)

CallSetLibur ==
    \E ids \in SeqsUpTo(Ids, MaxCallLen), d \in Dates, n \in Notes :
        call_set_libur(ids, d, n)

CallClearOverride ==
    \E ids \in SeqsUpTo(Ids, MaxCallLen), d \in Dates : call_clear_override(ids, d)

DeleteEmployee == \E e \in Ids : sql_delete_employee(e)

RekapBulanan == \E y \in Years, m \in Months : rekap_bulanan(y, m)

RekapTahunan == \E y2 \in Years : rekap_tahunan(y2)

Tab3 == \E y \in Years, m \in Months, y2 \in Years : tab3(y, m, y2)

\* The operator at the page.
Next == AddEmp \/ SaveStatus \/ SetLibur \/ CancelLibur \/ SelectPeriod

Spec == Init /\ [][Next]_vars

\* The page, and the functions and the database used from outside it.
NextDb ==
    \/ AddEmp \/ SaveStatus \/ SetLibur \/ CancelLibur
    \/ CallSetLibur \/ CallClearOverride \/ DeleteEmployee

SpecDb == Init /\ [][NextDb]_vars

\* The page with its tab 3, and the two reports of tab 3 each on its own.
NextRekap ==
    \/ AddEmp \/ SaveStatus
    \/ Tab3 \/ RekapBulanan \/ RekapTahunan

SpecRekap == Init /\ [][NextRekap]_vars

\* ------------------------------------------------------------------ claims

\* The calendar, independently of toordinal: the day after d.
NextDay(d) ==
    IF d.day < days_in_month(d.year, d.month) THEN Date(d.year, d.month, d.day + 1)
    ELSE IF d.month < 12 THEN Date(d.year, d.month + 1, 1)
    ELSE Date(d.year + 1, 1, 1)

\* a is b or an earlier day.
DateLeq(a, b) ==
    \/ a.year < b.year
    \/ a.year = b.year /\ a.month < b.month
    \/ a.year = b.year /\ a.month = b.month /\ a.day <= b.day

\* The number of days from a to b, both counted, for a no later than b.
RECURSIVE DaysCounted(_, _)
DaysCounted(a, b) == IF a = b THEN 1 ELSE 1 + DaysCounted(NextDay(a), b)

\* (end - start) in days + 1, counted on the calendar.
InclusiveDays(start_date, end_date) ==
    IF DateLeq(start_date, end_date) THEN DaysCounted(start_date, end_date)
    ELSE 2 - DaysCounted(end_date, start_date)

\* The copies of row r in the table tbl (0 for a row it does not hold).
Copies(tbl, r) == IF r \in BagToSet(tbl) THEN tbl[r] ELSE 0

\* The set of (employee_id, work_date) pairs is a key of the override table.
OnePerPair(tbl) ==
    \A r1 \in BagToSet(tbl) :
        /\ tbl[r1] = 1
        /\ \A r2 \in BagToSet(tbl) :
             r1.employee_id = r2.employee_id /\ r1.work_date = r2.work_date => r1 = r2

\* C1: the report has one row per active employee, and every row has
\* masuk_days + libur_days = total_days, where total_days is the number of days
\* from the period's start to its end, both counted.
C1_MasukPlusLiburIsTotal ==
    /\ Len(rep) = Cardinality(ActiveIds(employees))
    /\ \A i \in 1 .. Len(rep) :
         /\ rep[i].masuk_days + rep[i].libur_days = rep[i].total_days
         /\ rep[i].total_days = InclusiveDays(period.start, period.end)

\* A report over 31 days with a row of one day off and 30 days present.
C1_Witness ==
    \E i \in 1 .. Len(rep) :
        rep[i].total_days = 31 /\ rep[i].libur_days = 1 /\ rep[i].masuk_days = 30

\* C2: the override table never holds two rows of one (employee_id, work_date)
\* pair, and a "Tandai LIBUR" press leaves, for every employee it is for,
\* exactly one row of the pair, of status LIBUR and with the notes just given
\* (whatever row the pair had before, so also on the second of two presses).
C2_OneRowPerPair ==
    [][ /\ OnePerPair(overrides')
        /\ \A m \in Modes, e \in Ids, d \in Dates, n \in RawNotes :
             outcome'.op = "btn_set_libur" /\ btn_set_libur(m, e, d, n) =>
               \A t \in (IF m = "Satu karyawan" THEN {e} ELSE ActiveIds(employees)) :
                 /\ RowsOf(overrides', t, isoformat(d))
                      = { OverrideRow(t, isoformat(d), strip(n)) }
                 /\ Copies(overrides', OverrideRow(t, isoformat(d), strip(n))) = 1
      ]_vars

\* After a "Tandai LIBUR" press the table holds a row with the note "n" and a
\* row with a blank note.
C2_Witness ==
    /\ outcome.op = "btn_set_libur"
    /\ \E r1, r2 \in BagToSet(overrides) : r1.notes = <<110>> /\ r2.notes = <<>>

\* C3: clear_override for pairs that have no override row returns without an
\* error and leaves the employee table and the override table as they were;
\* so does a "Batalkan LIBUR" press for such pairs.
C3_ClearAbsentIsNoOp ==
    [][ /\ outcome'.op = "clear_override" =>
             \A ids \in SeqsUpTo(Ids, MaxCallLen), d \in Dates :
               /\ call_clear_override(ids, d)
               /\ \A k \in 1 .. Len(ids) : RowsOf(overrides, ids[k], isoformat(d)) = {}
               => /\ overrides' = overrides
                  /\ employees' = employees
                  /\ outcome'.msg = "returned"
        /\ outcome'.op = "btn_cancel_libur" =>
             \A m \in Modes, e \in Ids, d \in Dates :
               /\ btn_cancel_libur(m, e, d)
               /\ \A t \in (IF m = "Satu karyawan" THEN {e} ELSE ActiveIds(employees)) :
                    RowsOf(overrides, t, isoformat(d)) = {}
               => /\ overrides' = overrides
                  /\ employees' = employees
                  /\ outcome'.msg = "Override LIBUR dihapus."
      ]_vars

\* clear_override has returned and the table still holds an override row.
C3_Witness ==
    /\ outcome.op = "clear_override"
    /\ overrides # EmptyBag

\* The report r shows the rows of the frame f, one for each employee of emps
\* with is_active = 1 and none for any other employee.
ReportIsOfActive(emps, f, r) ==
    LET shown == { f[i].id : i \in 1 .. Len(f) } IN
    /\ Len(r) = Len(f)
    /\ Len(f) = Cardinality(shown)
    /\ shown = { e \in DOMAIN emps : emps[e].is_active = 1 }
    /\ \A i \in 1 .. Len(f) : r[i] = columns(f[i])

\* C4: a "Simpan status" press leaves the override table as it was, and the
\* report built after every step has no row of an employee who is inactive:
\* its rows are those of the active employees.
C4_InactiveKeepsOverridesLeavesReport ==
    [][ /\ outcome'.op = "btn_save_status" => overrides' = overrides
        /\ \A f \in { report_frame(employees', overrides', period'.start, period'.end) } :
             ReportIsOfActive(employees', f, rep')
      ]_vars

\* An employee with an override row has just been set inactive, and the report
\* has a row (of another employee).
C4_Witness ==
    /\ outcome.op = "btn_save_status"
    /\ Len(rep) = 1
    /\ \E e \in DOMAIN employees :
         /\ employees[e].is_active = 0
         /\ \E r \in BagToSet(overrides) : r.employee_id = e

\* C5: every override row is of an employee in the employees table, and the
\* deletion of an employee row removes that employee's override rows and no
\* other row.
C5_OverridesReferenceEmployees ==
    [][ /\ \A r \in BagToSet(overrides') : r.employee_id \in DOMAIN employees'
        /\ outcome'.op = "delete_employee" =>
             /\ BagToSet(overrides') \subseteq BagToSet(overrides)
             /\ \A r \in BagToSet(overrides) :
                  Copies(overrides', r)
                    = IF r.employee_id \in DOMAIN employees' THEN overrides[r] ELSE 0
      ]_vars

\* An employee has just been deleted, and the override table still holds a row
\* (of another employee).
C5_Witness ==
    /\ outcome.op = "delete_employee"
    /\ overrides # EmptyBag

\* C6: in every row of the report, libur_days is the number of dates from the
\* period's start to its end, both included, on which the employee has an
\* override row, and masuk_days is the rest of the period's days.
C6_LiburDaysCountsOverrides ==
    LET f == report_frame(employees, overrides, period.start, period.end) IN
    /\ Len(rep) = Len(f)
    /\ \A i \in 1 .. Len(f) :
         LET off == { d \in Dates :
                        /\ DateLeq(period.start, d)
                        /\ DateLeq(d, period.end)
                        /\ RowsOf(overrides, f[i].id, isoformat(d)) # {} }
         IN /\ rep[i] = columns(f[i])
            /\ rep[i].libur_days = Cardinality(off)
            /\ rep[i].masuk_days = InclusiveDays(period.start, period.end) - Cardinality(off)

\* A report over 31 days with a row of 2 days off and 29 days present.
C6_Witness ==
    \E i \in 1 .. Len(rep) :
        rep[i].total_days = 31 /\ rep[i].libur_days = 2 /\ rep[i].masuk_days = 29

\* What the page shows for an error.
ErrorMsgs == { "Nama tidak boleh kosong.", "Gagal", "FOREIGN KEY constraint failed" }

\* Some employee has the code c.
CodeInUse(c) == \E e \in DOMAIN employees : employees[e].employee_code = Text(c)

\* C7: "Tambah" with a code that an employee already has ends in an error and
\* leaves the employee table as it was; with an empty code it never ends in the
\* uniqueness error, and with a name adds an employee without a code; no two
\* employees ever have the same code.
C7_CodeUniqueWhenGiven ==
    [][ /\ \A e1, e2 \in DOMAIN employees' :
             /\ e1 # e2
             /\ ~employees'[e1].employee_code.isNull
             => employees'[e1].employee_code # employees'[e2].employee_code
        /\ outcome'.op = "btn_add_emp" =>
             \A n \in RawNames, c \in RawCodes :
               btn_add_emp(n, c) =>
                 /\ strip(c) # <<>> /\ CodeInUse(strip(c)) =>
                      outcome'.msg \in ErrorMsgs /\ employees' = employees
                 /\ strip(c) = <<>> => outcome'.msg # "Gagal"
                 /\ strip(c) = <<>> /\ strip(n) # <<>> =>
                      /\ outcome'.msg = "Karyawan ditambahkan."
                      /\ DOMAIN employees' = DOMAIN employees \cup {emp_seq'}
                      /\ emp_seq' \notin DOMAIN employees
                      /\ employees'[emp_seq'].employee_code = NULL
      ]_vars

\* "Tambah" has ended in the uniqueness error while an employee without a code
\* and an employee with one are in the table.
C7_Witness ==
    /\ outcome = [op |-> "btn_add_emp", msg |-> "Gagal"]
    /\ \E e1, e2 \in DOMAIN employees :
         employees[e1].employee_code = NULL /\ ~employees[e2].employee_code.isNull

\* C8 as stated: "Tambah" with an empty or unused code, whatever the name, and
\* every "Simpan status", "Tandai LIBUR" and "Batalkan LIBUR" end without an
\* error.
C8_OnlyUniquenessFails ==
    [][ /\ outcome'.op = "btn_add_emp" =>
             \A n \in RawNames, c \in RawCodes :
               btn_add_emp(n, c) /\ (strip(c) = <<>> \/ ~CodeInUse(strip(c)))
               => outcome'.msg \notin ErrorMsgs
        /\ outcome'.op \in {"btn_save_status", "btn_set_libur", "btn_cancel_libur"}
             => outcome'.msg \notin ErrorMsgs
      ]_vars

\* C8, amended: "Tambah" with a name that is not blank and an empty or unused
\* code, and every "Simpan status", "Tandai LIBUR" and "Batalkan LIBUR", end
\* without an error; "Tambah" with a blank name ends in the error "Nama tidak
\* boleh kosong." and changes no table.
C8_OnlyAddEmployeeFails ==
    [][ /\ outcome'.op = "btn_add_emp" =>
             \A n \in RawNames, c \in RawCodes :
               btn_add_emp(n, c) =>
                 /\ strip(n) # <<>> /\ (strip(c) = <<>> \/ ~CodeInUse(strip(c)))
                      => outcome'.msg \notin ErrorMsgs
                 /\ strip(n) = <<>> =>
                      /\ outcome'.msg = "Nama tidak boleh kosong."
                      /\ employees' = employees
                      /\ overrides' = overrides
        /\ outcome'.op \in {"btn_save_status", "btn_set_libur", "btn_cancel_libur"}
             => outcome'.msg \notin ErrorMsgs
      ]_vars

\* "Tambah" has ended without an error for a second employee, neither with a code.
C8_Witness ==
    /\ outcome = [op |-> "btn_add_emp", msg |-> "Karyawan ditambahkan."]
    /\ Cardinality(DOMAIN employees) = 2
    /\ \A e \in DOMAIN employees : employees[e].employee_code = NULL

\* C9: a call of set_libur with a list of ids writes the ids before the first
\* one that fails (an id of no employee), each to exactly one row with the
\* notes given, raises there, and leaves every other row as it was, the rows
\* of the ids from the failing one on included; with no failing id it writes
\* them all. A call of clear_override deletes the rows of every listed pair and
\* no other row.
C9_LoopIsNotAtomic ==
    [][ /\ outcome'.op = "set_libur" =>
             \A ids \in SeqsUpTo(Ids, MaxCallLen), d \in Dates, n \in Notes :
               call_set_libur(ids, d, n) =>
                 LET missing == { k \in 1 .. Len(ids) : ids[k] \notin DOMAIN employees }
                     k == IF missing = {} THEN Len(ids) + 1
                          ELSE CHOOSE x \in missing : \A y \in missing : x <= y
                     written == { ids[j] : j \in 1 .. k - 1 }
                 IN /\ outcome'.msg = IF missing = {} THEN "returned"
                                      ELSE "FOREIGN KEY constraint failed"
                    /\ \A t \in written :
                         /\ RowsOf(overrides', t, isoformat(d))
                              = { OverrideRow(t, isoformat(d), n) }
                         /\ Copies(overrides', OverrideRow(t, isoformat(d), n)) = 1
                    /\ \A r \in BagToSet(overrides) \cup BagToSet(overrides') :
                         ~(r.employee_id \in written /\ r.work_date = isoformat(d))
                         => Copies(overrides', r) = Copies(overrides, r)
        /\ outcome'.op = "clear_override" =>
             \A ids \in SeqsUpTo(Ids, MaxCallLen), d \in Dates :
               call_clear_override(ids, d) =>
                 LET listed == { ids[j] : j \in 1 .. Len(ids) }
                 IN \A r \in BagToSet(overrides) \cup BagToSet(overrides') :
                      Copies(overrides', r)
                        = IF r.employee_id \in listed /\ r.work_date = isoformat(d)
                          THEN 0 ELSE Copies(overrides, r)
      ]_vars

\* A call of set_libur has raised, and the override table holds a row with the
\* call's note.
C9_Witness ==
    /\ outcome = [op |-> "set_libur", msg |-> "FOREIGN KEY constraint failed"]
    /\ \E r \in BagToSet(overrides) : r.notes = <<110>>

\* C10: a "Tandai LIBUR" or "Batalkan LIBUR" press creates, changes and deletes
\* no override row of an employee who is inactive when it is pressed.
C10_InactiveRowsUntouched ==
    [][ outcome'.op \in {"btn_set_libur", "btn_cancel_libur"} =>
          \A e \in DOMAIN employees :
            employees[e].is_active = 0 =>
              \A r \in BagToSet(overrides) \cup BagToSet(overrides') :
                r.employee_id = e => Copies(overrides', r) = Copies(overrides, r)
      ]_vars

\* "Tandai LIBUR" for all active employees has just been pressed while an
\* inactive employee has an override row of another note on the same date.
C10_Witness ==
    /\ outcome.op = "btn_set_libur"
    /\ \E e1, e2 \in DOMAIN employees :
         /\ employees[e1].is_active = 0
         /\ employees[e2].is_active = 1
         /\ \E r1, r2 \in BagToSet(overrides) :
              /\ r1.employee_id = e1 /\ r2.employee_id = e2
              /\ r1.work_date = r2.work_date
              /\ r1.notes = <<>> /\ r2.notes = <<110>>

\* C11: month_range(year, month) returns the first day and the last day of that
\* month of that year (31 December of `year` for month 12), year_range(year)
\* returns 1 January and 31 December of that year, and the monthly report has,
\* in every row, total_days equal to the length of the month (28, 29, 30 or 31).
C11_RangesAreCalendarBoundaries ==
    [][ /\ outcome'.op = "rekap_bulanan" =>
             \A y \in Years, m \in Months :
               rekap_bulanan(y, m) =>
                 /\ outcome'.msg = "none"
                 /\ period' = [start |-> Date(y, m, 1),
                               end |-> Date(y, m, days_in_month(y, m))]
                 /\ \A i \in 1 .. Len(rep') :
                      /\ rep'[i].total_days = days_in_month(y, m)
                      /\ rep'[i].total_days \in 28 .. 31
        /\ outcome'.op = "rekap_tahunan" =>
             \A y2 \in Years :
               rekap_tahunan(y2) =>
                 /\ outcome'.msg = "none"
                 /\ period' = [start |-> Date(y2, 1, 1), end |-> Date(y2, 12, 31)]
      ]_vars

\* C12: in every row of the report of a period whose start is not after its
\* end, 0 <= libur_days <= total_days and masuk_days >= 0; in every row of the
\* report of a period whose start is after its end, libur_days = 0 and
\* masuk_days = total_days <= 0.
C12_LiburWithinTotal ==
    \A i \in 1 .. Len(rep) :
        IF DateLeq(period.start, period.end)
        THEN /\ 0 <= rep[i].libur_days
             /\ rep[i].libur_days <= rep[i].total_days
             /\ rep[i].masuk_days >= 0
        ELSE /\ rep[i].libur_days = 0
             /\ rep[i].masuk_days = rep[i].total_days
             /\ rep[i].total_days <= 0

\* A report over one day with a row of that day off: libur_days = total_days.
C12_Witness ==
    /\ period.start = period.end
    /\ \E i \in 1 .. Len(rep) :
         rep[i].total_days = 1 /\ rep[i].libur_days = 1 /\ rep[i].masuk_days = 0

====
